---- MODULE Spec2Model ----
(***************************************************************************)
(* Many-to-many containers of p-m2m:                                       *)
(*   M2M      (src/src/stdvec.rs)   Vec<(L, R)>, kept sorted by insert     *)
(*   SmallM2M (src/src/smallvec.rs) SmallVec<A>, kept sorted by insert     *)
(*   M2M      (src/src/lib.rs)      Vec<(L, R)>, insert appends            *)
(* A container is the sequence of pairs it wraps.  A pair is <<l, r>>.     *)
(* Rust indices are 0-based; sequence positions here are 1-based, so the   *)
(* element the code calls v[i] is v[i + 1] below.                          *)
(***************************************************************************)
EXTENDS Integers, Sequences, FiniteSets, TLC

\* ------------------------------------------------------------------ bounds
MaxLeft == 2
MaxRight == 2
MaxLen == 3
MaxInput == 3
InlineCap == 2

Lefts == 1..MaxLeft
Rights == 1..MaxRight
Pairs == Lefts \X Rights

\* All sequences over S of length at most n (the inputs of from).
RECURSIVE SeqsUpTo(_, _)
SeqsUpTo(S, n) ==
  IF n = 0 THEN {<< >>}
  ELSE LET shorter == SeqsUpTo(S, n - 1)
       IN shorter \cup {Append(s, x) : s \in {t \in shorter : Len(t) = n - 1}, x \in S}

Inputs == SeqsUpTo(Pairs, MaxInput)

\* A predicate F: FnMut(&(L, R)) -> bool is the set of pairs it answers true on.
\* The predicates tried: a test of the left component (|(l, _)| A.contains(l)),
\* a test of the right component (|(_, r)| B.contains(r)), a test for one pair
\* (|p| p == q) or against it (|p| p != q), and |(l, r)| l == r, |(l, r)| l != r.
Preds ==
  {A \X Rights : A \in SUBSET Lefts} \cup {Lefts \X B : B \in SUBSET Rights}
    \cup {{q} : q \in Pairs} \cup {Pairs \ {q} : q \in Pairs}
    \cup {{q \in Pairs : q[1] = q[2]}, {q \in Pairs : q[1] # q[2]}}

\* ------------------------------------------------------- Option<T> values
None == [some |-> FALSE, val |-> << >>]
Some(x) == [some |-> TRUE, val |-> x]

\* ------------------------------------------------ Ord for (L, R) and Vec<T>
\* Lexicographic order of tuples: derived Ord of (L, R).
PairLess(a, b) == a[1] < b[1] \/ (a[1] = b[1] /\ a[2] < b[2])

\* slice::contains
VecContains(v, x) == \E i \in 1..Len(v) : v[i] = x

\* Vec::remove(i), i 0-based: the element at i is taken out, the rest shift left.
VecRemove(v, i) == SubSeq(v, 1, i) \o SubSeq(v, i + 2, Len(v))

\* One step of a stable insertion sort: x goes after every element not greater.
RECURSIVE SortedInsert(_, _)
SortedInsert(s, x) ==
  IF s = << >> THEN <<x>>
  ELSE IF PairLess(x, Head(s)) THEN <<x>> \o s
       ELSE <<Head(s)>> \o SortedInsert(Tail(s), x)

\* slice::sort on pairs (stable, ascending by Ord).
RECURSIVE VecSort(_)
VecSort(v) ==
  IF v = << >> THEN << >>
  ELSE SortedInsert(VecSort(SubSeq(v, 1, Len(v) - 1)), v[Len(v)])

\* The same sort on a vector of left or right values (L: Ord, R: Ord).
RECURSIVE ValSortedInsert(_, _)
ValSortedInsert(s, x) ==
  IF s = << >> THEN <<x>>
  ELSE IF x < Head(s) THEN <<x>> \o s
       ELSE <<Head(s)>> \o ValSortedInsert(Tail(s), x)

RECURSIVE ValSort(_)
ValSort(v) ==
  IF v = << >> THEN << >>
  ELSE ValSortedInsert(ValSort(SubSeq(v, 1, Len(v) - 1)), v[Len(v)])

\* Vec::dedup: of each run of consecutive equal elements the first is kept.
RECURSIVE VecDedup(_)
VecDedup(v) ==
  IF Len(v) <= 1 THEN v
  ELSE IF v[1] = v[2] THEN VecDedup(Tail(v))
       ELSE <<v[1]>> \o VecDedup(Tail(v))

\* Vec::retain_mut: the elements f answers true on, in order.
RECURSIVE VecRetain(_, _)
VecRetain(v, keep) ==
  IF v = << >> THEN << >>
  ELSE IF Head(v) \in keep THEN <<Head(v)>> \o VecRetain(Tail(v), keep)
       ELSE VecRetain(Tail(v), keep)

\* ------------------------------------------------------------- stdvec.rs
\* Mutant of M2M_from_iter: dedup before sort.
Mut_from_iter_dedup_first(input) == VecSort(VecDedup(input))

\* FromIterator::from_iter / From<[(L, R); N]>::from
M2M_from_iter(input) == VecDedup(VecSort(input))

M2M_new == << >>

\* Mutant of M2M_insert: the pair is pushed without the contains test.
Mut_insert_no_check(v, left, right) ==
  [v |-> VecSort(Append(v, <<left, right>>)), ret |-> TRUE]

\* insert: [v |-> the vector afterwards, ret |-> the returned bool]
M2M_insert(v, left, right) ==
  LET value == <<left, right>>
  IN IF VecContains(v, value) THEN [v |-> v, ret |-> FALSE]
     ELSE [v |-> VecSort(Append(v, value)), ret |-> TRUE]

M2M_len(v) == Len(v)

M2M_is_empty(v) == Len(v) = 0

M2M_clear(v) == << >>

\* Mutant of M2M_remove_loop: i advances after a removal too.
RECURSIVE Mut_remove_loop_skip(_, _, _, _, _)
Mut_remove_loop_skip(v, left, i, rights, iters) ==
  IF i < Len(v)
  THEN IF v[i + 1][1] = left
       THEN Mut_remove_loop_skip(VecRemove(v, i), left, i + 1, Append(rights, v[i + 1][2]), iters + 1)
       ELSE Mut_remove_loop_skip(v, left, i + 1, rights, iters + 1)
  ELSE [v |-> v, rights |-> rights, iters |-> iters, i |-> i]

\* Mutant of M2M_remove_loop: the scan starts over after a removal.
RECURSIVE Mut_remove_loop_rescan(_, _, _, _, _)
Mut_remove_loop_rescan(v, left, i, rights, iters) ==
  IF i < Len(v)
  THEN IF v[i + 1][1] = left
       THEN Mut_remove_loop_rescan(VecRemove(v, i), left, 0, Append(rights, v[i + 1][2]), iters + 1)
       ELSE Mut_remove_loop_rescan(v, left, i + 1, rights, iters + 1)
  ELSE [v |-> v, rights |-> rights, iters |-> iters, i |-> i]

\* The while loop of remove; i is the code's 0-based index, iters counts the
\* evaluations of the loop body.  v[i + 1] is read only where i < Len(v).
\* The result holds the vector, the rights taken out, the count and the
\* index the loop ended at.
RECURSIVE M2M_remove_loop(_, _, _, _, _)
M2M_remove_loop(v, left, i, rights, iters) ==
  IF i < Len(v)
  THEN IF v[i + 1][1] = left
       THEN M2M_remove_loop(VecRemove(v, i), left, i, Append(rights, v[i + 1][2]), iters + 1)
       ELSE M2M_remove_loop(v, left, i + 1, rights, iters + 1)
  ELSE [v |-> v, rights |-> rights, iters |-> iters, i |-> i]

\* remove: [v |-> the vector afterwards, ret |-> Option<Vec<R>>]
M2M_remove(v, left) ==
  LET done == M2M_remove_loop(v, left, 0, << >>, 0)
  IN [v |-> done.v,
      ret |-> IF done.rights = << >> THEN None ELSE Some(done.rights)]

M2M_contains(v, left, right) ==
  \E i \in 1..Len(v) : v[i][1] = left /\ v[i][2] = right

\* Mutant of M2M_retain: the predicate is negated, as in reject.
Mut_retain_negated(v, f) == VecRetain(v, Pairs \ f)

M2M_retain(v, f) == VecRetain(v, f)

\* Mutant of M2M_reject: the predicate is not negated, as in retain.
Mut_reject_not_negated(v, f) == VecRetain(v, f)

M2M_reject(v, f) == VecRetain(v, Pairs \ f)

\* iter().filter(|(l, _)| l == left).map(|(_, r)| r).collect()
RECURSIVE M2M_collect_rights(_, _)
M2M_collect_rights(v, left) ==
  IF v = << >> THEN << >>
  ELSE IF Head(v)[1] = left THEN <<Head(v)[2]>> \o M2M_collect_rights(Tail(v), left)
       ELSE M2M_collect_rights(Tail(v), left)

M2M_get_rights(v, left) ==
  LET rights == M2M_collect_rights(v, left)
  IN IF rights = << >> THEN None ELSE Some(rights)

\* iter().filter(|(_, r)| r == right).map(|(l, _)| l).collect()
RECURSIVE M2M_collect_lefts(_, _)
M2M_collect_lefts(v, right) ==
  IF v = << >> THEN << >>
  ELSE IF Head(v)[2] = right THEN <<Head(v)[1]>> \o M2M_collect_lefts(Tail(v), right)
       ELSE M2M_collect_lefts(Tail(v), right)

\* Mutant of M2M_get_lefts: the filter compares the left component.
Mut_get_lefts_by_left(v, right) ==
  LET lefts == M2M_collect_rights(v, right)
  IN IF lefts = << >> THEN None ELSE Some(lefts)

M2M_get_lefts(v, right) ==
  LET lefts == M2M_collect_lefts(v, right)
  IN IF lefts = << >> THEN None ELSE Some(lefts)

\* get_rights_mut(left), the caller then storing w[r] through each reference
\* to a right value r: the vector afterwards.
M2M_get_rights_mut(v, left, w) ==
  [i \in 1..Len(v) |-> IF v[i][1] = left THEN <<v[i][1], w[v[i][2]]>> ELSE v[i]]

\* get_lefts_mut(right), the caller then storing w[l] through each reference
\* to a left value l: the vector afterwards.
M2M_get_lefts_mut(v, right, w) ==
  [i \in 1..Len(v) |-> IF v[i][2] = right THEN <<w[v[i][1]], v[i][2]>> ELSE v[i]]

\* iter_mut().for_each(|p| *p = w[*p]): the vector afterwards.
M2M_iter_mut(v, w) == [i \in 1..Len(v) |-> w[v[i]]]

\* (&mut m2m).into_iter() is self.iter_mut(); the caller then writes as above.
M2M_into_iter_mut(v, w) == M2M_iter_mut(v, w)

\* as_mut_slice()[i] = pair, i 0-based: the vector afterwards.
M2M_as_mut_slice(v, i, pair) == [v EXCEPT ![i + 1] = pair]

\* Mutant of M2M_lefts: dedup before sort.
Mut_lefts_dedup_first(v) ==
  LET ls == [i \in 1..Len(v) |-> v[i][1]]
  IN IF ls = << >> THEN None ELSE Some(ValSort(VecDedup(ls)))

M2M_lefts(v) ==
  LET ls == [i \in 1..Len(v) |-> v[i][1]]
  IN IF ls = << >> THEN None ELSE Some(VecDedup(ValSort(ls)))

M2M_rights(v) ==
  LET rs == [i \in 1..Len(v) |-> v[i][2]]
  IN IF rs = << >> THEN None ELSE Some(VecDedup(ValSort(rs)))

\* Mutant of M2M_contains_left: the right component is compared.
Mut_contains_left_by_right(v, left) == \E i \in 1..Len(v) : v[i][2] = left

M2M_contains_left(v, left) == \E i \in 1..Len(v) : v[i][1] = left

M2M_contains_right(v, right) == \E i \in 1..Len(v) : v[i][2] = right

\* iter().cloned().map(|(l, r)| (r, l)).collect()
M2M_flip_collect(v) == [i \in 1..Len(v) |-> <<v[i][2], v[i][1]>>]

\* Mutant of M2M_flip: after the sort, dedup_by_key on the first component.
RECURSIVE DedupByFirst(_)
DedupByFirst(v) ==
  IF Len(v) <= 1 THEN v
  ELSE IF v[1][1] = v[2][1] THEN DedupByFirst(<<v[1]>> \o Tail(Tail(v)))
       ELSE <<v[1]>> \o DedupByFirst(Tail(v))

Mut_flip_dedup_by_key(v) == DedupByFirst(VecSort(M2M_flip_collect(v)))

\* Mutant of M2M_flip: the pairs are cloned and sorted but not swapped.
Mut_flip_no_swap(v) == VecSort(v)

\* Mutant of M2M_flip: the swapped pairs are not sorted.
Mut_flip_no_sort(v) == M2M_flip_collect(v)

\* flip: the pair sequence of the new M2M<R, L>.
M2M_flip(v) == VecSort(M2M_flip_collect(v))

\* ----------------------------------------------------------- smallvec.rs
SmallM2M_from_iter(input) == VecDedup(VecSort(input))

SmallM2M_new == << >>

\* Mutant of SmallM2M_insert: the pair is pushed and the vector is not sorted.
Mut_small_insert_no_sort(v, left, right) ==
  LET value == <<left, right>>
  IN IF VecContains(v, value) THEN [v |-> v, ret |-> FALSE]
     ELSE [v |-> Append(v, value), ret |-> TRUE]

SmallM2M_insert(v, left, right) ==
  LET value == <<left, right>>
  IN IF VecContains(v, value) THEN [v |-> v, ret |-> FALSE]
     ELSE [v |-> VecSort(Append(v, value)), ret |-> TRUE]

SmallM2M_len(v) == Len(v)

SmallM2M_is_empty(v) == Len(v) = 0

SmallM2M_clear(v) == << >>

\* Mutant of SmallM2M_remove_loop: i advances after a removal too.
RECURSIVE Mut_small_remove_loop_skip(_, _, _, _, _)
Mut_small_remove_loop_skip(v, left, i, rights, iters) ==
  IF i < Len(v)
  THEN IF v[i + 1][1] = left
       THEN Mut_small_remove_loop_skip(VecRemove(v, i), left, i + 1, Append(rights, v[i + 1][2]), iters + 1)
       ELSE Mut_small_remove_loop_skip(v, left, i + 1, rights, iters + 1)
  ELSE [v |-> v, rights |-> rights, iters |-> iters, i |-> i]

RECURSIVE SmallM2M_remove_loop(_, _, _, _, _)
SmallM2M_remove_loop(v, left, i, rights, iters) ==
  IF i < Len(v)
  THEN IF v[i + 1][1] = left
       THEN SmallM2M_remove_loop(VecRemove(v, i), left, i, Append(rights, v[i + 1][2]), iters + 1)
       ELSE SmallM2M_remove_loop(v, left, i + 1, rights, iters + 1)
  ELSE [v |-> v, rights |-> rights, iters |-> iters, i |-> i]

SmallM2M_remove(v, left) ==
  LET done == SmallM2M_remove_loop(v, left, 0, << >>, 0)
  IN [v |-> done.v,
      ret |-> IF done.rights = << >> THEN None ELSE Some(done.rights)]

SmallM2M_contains(v, left, right) ==
  \E i \in 1..Len(v) : v[i][1] = left /\ v[i][2] = right

\* iter_mut().for_each(|p| *p = w[*p]): the SmallVec's items afterwards; a
\* write through a reference moves no item.
SmallM2M_iter_mut(v, w) == [i \in 1..Len(v) |-> w[v[i]]]

\* (&mut m2m).into_iter() is self.iter_mut().
SmallM2M_into_iter_mut(v, w) == SmallM2M_iter_mut(v, w)

\* The SmallVec has left its inline buffer once it held more than InlineCap
\* items; it does not move back.
SpillsOnPush(v, wasSpilled) == wasSpilled \/ Len(v) + 1 > InlineCap

SpillsOnCollect(input) == Len(input) > InlineCap

\* ---------------------------------------------------------------- lib.rs
\* Mutant of LibM2M_from_iter: the sorted input is not deduplicated.
Mut_lib_from_iter_no_dedup(input) == VecSort(input)

LibM2M_from_iter(input) == VecDedup(VecSort(input))

LibM2M_new == << >>

\* Mutant of LibM2M_insert: a pair already present is pushed again.
Mut_lib_insert_again(v, left, right) ==
  [v |-> Append(v, <<left, right>>), ret |-> VecContains(v, <<left, right>>) = FALSE]

\* Mutant of LibM2M_insert: true is returned whether or not the pair was there.
Mut_lib_insert_true(v, left, right) ==
  LET value == <<left, right>>
  IN IF VecContains(v, value) THEN [v |-> v, ret |-> TRUE]
     ELSE [v |-> Append(v, value), ret |-> TRUE]

\* Mutant of LibM2M_insert: the vector is sorted after the push, as in stdvec.rs.
Mut_lib_insert_sorted(v, left, right) ==
  LET value == <<left, right>>
  IN IF VecContains(v, value) THEN [v |-> v, ret |-> FALSE]
     ELSE [v |-> VecSort(Append(v, value)), ret |-> TRUE]

LibM2M_insert(v, left, right) ==
  LET value == <<left, right>>
  IN IF VecContains(v, value) THEN [v |-> v, ret |-> FALSE]
     ELSE [v |-> Append(v, value), ret |-> TRUE]

LibM2M_len(v) == Len(v)

LibM2M_is_empty(v) == Len(v) = 0

LibM2M_clear(v) == << >>

\* Vec::swap_remove(i): the last element takes the place of the one taken out.
VecSwapRemove(v, i) ==
  IF i + 1 = Len(v) THEN SubSeq(v, 1, i)
  ELSE [SubSeq(v, 1, Len(v) - 1) EXCEPT ![i + 1] = v[Len(v)]]

\* Mutant of LibM2M_remove_loop: swap_remove in place of remove.
RECURSIVE Mut_lib_remove_loop_swap(_, _, _, _, _)
Mut_lib_remove_loop_swap(v, left, i, rights, iters) ==
  IF i < Len(v)
  THEN IF v[i + 1][1] = left
       THEN Mut_lib_remove_loop_swap(VecSwapRemove(v, i), left, i, Append(rights, v[i + 1][2]), iters + 1)
       ELSE Mut_lib_remove_loop_swap(v, left, i + 1, rights, iters + 1)
  ELSE [v |-> v, rights |-> rights, iters |-> iters, i |-> i]

RECURSIVE LibM2M_remove_loop(_, _, _, _, _)
LibM2M_remove_loop(v, left, i, rights, iters) ==
  IF i < Len(v)
  THEN IF v[i + 1][1] = left
       THEN LibM2M_remove_loop(VecRemove(v, i), left, i, Append(rights, v[i + 1][2]), iters + 1)
       ELSE LibM2M_remove_loop(v, left, i + 1, rights, iters + 1)
  ELSE [v |-> v, rights |-> rights, iters |-> iters, i |-> i]

LibM2M_remove(v, left) ==
  LET done == LibM2M_remove_loop(v, left, 0, << >>, 0)
  IN [v |-> done.v,
      ret |-> IF done.rights = << >> THEN None ELSE Some(done.rights)]

LibM2M_contains(v, left, right) ==
  \E i \in 1..Len(v) : v[i][1] = left /\ v[i][2] = right

RECURSIVE LibM2M_collect_rights(_, _)
LibM2M_collect_rights(v, left) ==
  IF v = << >> THEN << >>
  ELSE IF Head(v)[1] = left THEN <<Head(v)[2]>> \o LibM2M_collect_rights(Tail(v), left)
       ELSE LibM2M_collect_rights(Tail(v), left)

LibM2M_get_rights(v, left) ==
  LET rights == LibM2M_collect_rights(v, left)
  IN IF rights = << >> THEN None ELSE Some(rights)

RECURSIVE LibM2M_collect_lefts(_, _)
LibM2M_collect_lefts(v, right) ==
  IF v = << >> THEN << >>
  ELSE IF Head(v)[2] = right THEN <<Head(v)[1]>> \o LibM2M_collect_lefts(Tail(v), right)
       ELSE LibM2M_collect_lefts(Tail(v), right)

LibM2M_get_lefts(v, right) ==
  LET lefts == LibM2M_collect_lefts(v, right)
  IN IF lefts = << >> THEN None ELSE Some(lefts)

LibM2M_contains_left(v, left) == \E i \in 1..Len(v) : v[i][1] = left

LibM2M_contains_right(v, right) == \E i \in 1..Len(v) : v[i][2] = right

\* iter_mut().for_each(|p| *p = w[*p]): the vector afterwards.
LibM2M_iter_mut(v, w) == [i \in 1..Len(v) |-> w[v[i]]]

\* ------------------------------------------------------------------ state
\* vec, small, lib: the three containers' pair sequences.
\* spilled: whether small's SmallVec has left its inline buffer.
\* mode: "shared" when the three containers are driven with the same calls
\*       (the operations more than one of them offers), "heap" when the
\*       stdvec M2M is driven alone through its whole surface, the
\*       operations only it offers included.  A constructor sets it.
\* last: the last call, its arguments, the containers before it and what it
\*       returned from each container.
VARIABLES vec, small, spilled, lib, mode, last

vars == <<vec, small, spilled, lib, mode, last>>

Modes == {"shared", "heap"}

NoRet == "none"

Call(op, l, r, f, input, rv, rs, rl) ==
  [op |-> op, l |-> l, r |-> r, f |-> f, input |-> input,
   pre_vec |-> vec, pre_small |-> small, pre_lib |-> lib,
   ret_vec |-> rv, ret_small |-> rs, ret_lib |-> rl]

\* What a constructor leaves in last: there is no container before it.
Built(op, input) ==
  [op |-> op, l |-> 0, r |-> 0, f |-> {}, input |-> input,
   pre_vec |-> << >>, pre_small |-> << >>, pre_lib |-> << >>,
   ret_vec |-> NoRet, ret_small |-> NoRet, ret_lib |-> NoRet]

\* new(): empty containers.
InitNew ==
  /\ vec = M2M_new
  /\ small = SmallM2M_new
  /\ spilled = FALSE
  /\ lib = LibM2M_new
  /\ mode \in Modes
  /\ last = Built("new", << >>)

\* from(collection): the containers built from the same collection.
InitFrom ==
  \E input \in Inputs :
    /\ vec = M2M_from_iter(input)
    /\ mode \in Modes
    /\ small = IF mode = "shared" THEN SmallM2M_from_iter(input) ELSE SmallM2M_new
    /\ spilled = (mode = "shared" /\ SpillsOnCollect(input))
    /\ lib = IF mode = "shared" THEN LibM2M_from_iter(input) ELSE LibM2M_new
    /\ last = Built("from", input)

\* The state after construction.
Init == InitNew \/ InitFrom

\* insert grows a container to at most MaxLen pairs.
Insert ==
  \E l \in Lefts, r \in Rights :
    LET a == M2M_insert(vec, l, r)
        b == SmallM2M_insert(small, l, r)
        c == LibM2M_insert(lib, l, r)
    IN /\ Len(vec) < MaxLen /\ Len(small) < MaxLen /\ Len(lib) < MaxLen
       /\ vec' = a.v
       /\ IF mode = "shared"
          THEN /\ small' = b.v
               /\ spilled' = IF b.ret THEN SpillsOnPush(small, spilled) ELSE spilled
               /\ lib' = c.v
               /\ last' = Call("insert", l, r, {}, << >>, a.ret, b.ret, c.ret)
          ELSE /\ UNCHANGED <<small, spilled, lib>>
               /\ last' = Call("insert", l, r, {}, << >>, a.ret, NoRet, NoRet)
       /\ UNCHANGED mode

Remove ==
  \E l \in Lefts :
    LET a == M2M_remove(vec, l)
        b == SmallM2M_remove(small, l)
        c == LibM2M_remove(lib, l)
    IN /\ vec' = a.v
       /\ IF mode = "shared"
          THEN /\ small' = b.v
               /\ lib' = c.v
               /\ last' = Call("remove", l, 0, {}, << >>, a.ret, b.ret, c.ret)
          ELSE /\ UNCHANGED <<small, lib>>
               /\ last' = Call("remove", l, 0, {}, << >>, a.ret, NoRet, NoRet)
       /\ UNCHANGED <<spilled, mode>>

Clear ==
  /\ vec' = M2M_clear(vec)
  /\ IF mode = "shared"
     THEN small' = SmallM2M_clear(small) /\ lib' = LibM2M_clear(lib)
     ELSE UNCHANGED <<small, lib>>
  /\ last' = Call("clear", 0, 0, {}, << >>, NoRet, NoRet, NoRet)
  /\ UNCHANGED <<spilled, mode>>

\* retain and reject exist on the stdvec M2M only.
Retain ==
  \E f \in Preds :
    /\ mode = "heap"
    /\ vec' = M2M_retain(vec, f)
    /\ last' = Call("retain", 0, 0, f, << >>, NoRet, NoRet, NoRet)
    /\ UNCHANGED <<small, spilled, lib, mode>>

Reject ==
  \E f \in Preds :
    /\ mode = "heap"
    /\ vec' = M2M_reject(vec, f)
    /\ last' = Call("reject", 0, 0, f, << >>, NoRet, NoRet, NoRet)
    /\ UNCHANGED <<small, spilled, lib, mode>>

\* get_rights and get_lefts exist on the two Vec-backed containers.
GetRights ==
  \E l \in Lefts :
    /\ last' = Call("get_rights", l, 0, {}, << >>, M2M_get_rights(vec, l), NoRet,
                    IF mode = "shared" THEN LibM2M_get_rights(lib, l) ELSE NoRet)
    /\ UNCHANGED <<vec, small, spilled, lib, mode>>

GetLefts ==
  \E r \in Rights :
    /\ last' = Call("get_lefts", 0, r, {}, << >>, M2M_get_lefts(vec, r), NoRet,
                    IF mode = "shared" THEN LibM2M_get_lefts(lib, r) ELSE NoRet)
    /\ UNCHANGED <<vec, small, spilled, lib, mode>>

\* lefts() and rights() exist on the stdvec M2M only.
AllLefts ==
  /\ mode = "heap"
  /\ last' = Call("lefts", 0, 0, {}, << >>, M2M_lefts(vec), NoRet, NoRet)
  /\ UNCHANGED <<vec, small, spilled, lib, mode>>

AllRights ==
  /\ mode = "heap"
  /\ last' = Call("rights", 0, 0, {}, << >>, M2M_rights(vec), NoRet, NoRet)
  /\ UNCHANGED <<vec, small, spilled, lib, mode>>

\* contains exists on the three containers.
Contains ==
  \E l \in Lefts, r \in Rights :
    /\ last' = Call("contains", l, r, {}, << >>, M2M_contains(vec, l, r),
                    IF mode = "shared" THEN SmallM2M_contains(small, l, r) ELSE NoRet,
                    IF mode = "shared" THEN LibM2M_contains(lib, l, r) ELSE NoRet)
    /\ UNCHANGED <<vec, small, spilled, lib, mode>>

\* contains_left and contains_right exist on the two Vec-backed containers.
ContainsLeft ==
  \E l \in Lefts :
    /\ last' = Call("contains_left", l, 0, {}, << >>, M2M_contains_left(vec, l), NoRet,
                    IF mode = "shared" THEN LibM2M_contains_left(lib, l) ELSE NoRet)
    /\ UNCHANGED <<vec, small, spilled, lib, mode>>

ContainsRight ==
  \E r \in Rights :
    /\ last' = Call("contains_right", 0, r, {}, << >>, M2M_contains_right(vec, r), NoRet,
                    IF mode = "shared" THEN LibM2M_contains_right(lib, r) ELSE NoRet)
    /\ UNCHANGED <<vec, small, spilled, lib, mode>>

\* flip() exists on the stdvec M2M only; it takes &self and returns a new M2M.
Flip ==
  /\ mode = "heap"
  /\ last' = Call("flip", 0, 0, {}, << >>, M2M_flip(vec), NoRet, NoRet)
  /\ UNCHANGED <<vec, small, spilled, lib, mode>>

Next ==
  \/ Insert \/ Remove \/ Clear \/ Retain \/ Reject
  \/ GetRights \/ GetLefts \/ AllLefts \/ AllRights
  \/ Contains \/ ContainsLeft \/ ContainsRight \/ Flip

Spec == Init /\ [][Next]_vars

\* ------------------------------------------- writes through mutable handles
\* What a caller stores through a reference to a value x: one fixed value, or
\* the next value of the domain (as the doc tests' *l += 2, *l *= 3 move each
\* value to another one).
Writes(D) ==
  {[x \in D |-> c] : c \in D} \cup {[x \in D |-> IF x + 1 \in D THEN x + 1 ELSE 1]}

\* What a caller stores through a reference to a pair: one fixed pair, or a
\* write to one component that leaves the other as it was.
PairWrites ==
  {[p \in Pairs |-> c] : c \in Pairs}
    \cup {[p \in Pairs |-> <<w[p[1]], p[2]>>] : w \in Writes(Lefts)}
    \cup {[p \in Pairs |-> <<p[1], w[p[2]]>>] : w \in Writes(Rights)}

\* What a write through a handle leaves in last.
Wrote(op) == Built(op, << >>)

\* get_lefts_mut, get_rights_mut and as_mut_slice exist on the stdvec M2M only.
GetLeftsMut ==
  \E r \in Rights, w \in Writes(Lefts) :
    /\ mode = "heap"
    /\ vec' = M2M_get_lefts_mut(vec, r, w)
    /\ last' = Wrote("get_lefts_mut")
    /\ UNCHANGED <<small, spilled, lib, mode>>

GetRightsMut ==
  \E l \in Lefts, w \in Writes(Rights) :
    /\ mode = "heap"
    /\ vec' = M2M_get_rights_mut(vec, l, w)
    /\ last' = Wrote("get_rights_mut")
    /\ UNCHANGED <<small, spilled, lib, mode>>

AsMutSlice ==
  \E i \in 0..(Len(vec) - 1), pair \in Pairs :
    /\ mode = "heap"
    /\ vec' = M2M_as_mut_slice(vec, i, pair)
    /\ last' = Wrote("as_mut_slice")
    /\ UNCHANGED <<small, spilled, lib, mode>>

\* iter_mut exists on the three containers.
IterMut ==
  \E w \in PairWrites :
    /\ vec' = M2M_iter_mut(vec, w)
    /\ IF mode = "shared"
       THEN /\ small' = SmallM2M_iter_mut(small, w)
            /\ lib' = LibM2M_iter_mut(lib, w)
       ELSE UNCHANGED <<small, lib>>
    /\ last' = Wrote("iter_mut")
    /\ UNCHANGED <<spilled, mode>>

\* IntoIterator for a mutable borrow exists on the stdvec M2M and on SmallM2M.
IntoIterMut ==
  \E w \in PairWrites :
    /\ vec' = M2M_into_iter_mut(vec, w)
    /\ small' = IF mode = "shared" THEN SmallM2M_into_iter_mut(small, w) ELSE small
    /\ last' = Wrote("into_iter_mut")
    /\ UNCHANGED <<spilled, lib, mode>>

\* The containers written to through their mutable handles, and the stdvec
\* M2M asked for lefts() and rights().
InitMut == Init

NextMut ==
  \/ GetLeftsMut \/ GetRightsMut \/ IterMut \/ IntoIterMut \/ AsMutSlice
  \/ AllLefts \/ AllRights

SpecMut == InitMut /\ [][NextMut]_vars

\* ------------------------------------------------- what the claims speak of
ToSet(v) == {v[i] : i \in 1..Len(v)}

Unique(v) == \A i, j \in 1..Len(v) : i # j => v[i] # v[j]

StrictlyAscending(v) == \A i \in 1..(Len(v) - 1) : PairLess(v[i], v[i + 1])

\* The k-th smallest index of the index set I.
Nth(I, k) == CHOOSE i \in I : Cardinality({j \in I : j < i}) = k - 1

\* The elements of v at the indices I, in the order they have in v.
At(v, I) == [k \in 1..Cardinality(I) |-> v[Nth(I, k)]]

WithLeft(v, l) == {i \in 1..Len(v) : v[i][1] = l}
WithRight(v, r) == {i \in 1..Len(v) : v[i][2] = r}

\* The right (left) components of the pairs of v with left l (right r), in v's order.
RightsOf(v, l) == [k \in 1..Cardinality(WithLeft(v, l)) |-> v[Nth(WithLeft(v, l), k)][2]]
LeftsOf(v, r) == [k \in 1..Cardinality(WithRight(v, r)) |-> v[Nth(WithRight(v, r), k)][1]]

Reverse(s) == [k \in 1..Len(s) |-> s[Len(s) + 1 - k]]

Shared == mode = "shared"

\* C1: no container reached from new() or from(collection) by insert, remove,
\* retain, reject and clear holds the same pair at two distinct indices.
C1_Uniqueness == Unique(vec) /\ Unique(small) /\ Unique(lib)

\* An insert of a pair already present was turned down by all three containers.
C1_Witness ==
  /\ Shared /\ last.op = "insert" /\ Len(lib) >= 2
  /\ last.ret_vec = FALSE /\ last.ret_small = FALSE /\ last.ret_lib = FALSE

\* C2: the pair sequences of the sorted-order containers (stdvec M2M and
\* SmallM2M) are strictly ascending in lexicographic (left, right) order.
C2_SortedOrder == StrictlyAscending(vec) /\ StrictlyAscending(small)

\* An insert put a pair before pairs that were already there.
C2_Witness ==
  /\ Shared /\ last.op = "insert" /\ last.ret_small = TRUE
  /\ small[Len(small)] # <<last.l, last.r>>
  /\ vec[Len(vec)] # <<last.l, last.r>>

InsertLeavesAlone(pre, post, ret, l, r) ==
  VecContains(pre, <<l, r>>) => (ret = FALSE /\ post = pre /\ Len(post) = Len(pre))

\* C3: insert(l, r) on a container holding (l, r) returns false and leaves the
\* pair sequence and len() as they were; an insert of the same pair right
\* after any insert returns false and changes nothing.
C3_InsertPresent ==
  last.op = "insert" =>
    /\ InsertLeavesAlone(last.pre_vec, vec, last.ret_vec, last.l, last.r)
    /\ M2M_insert(vec, last.l, last.r) = [v |-> vec, ret |-> FALSE]
    /\ Shared =>
         /\ InsertLeavesAlone(last.pre_small, small, last.ret_small, last.l, last.r)
         /\ InsertLeavesAlone(last.pre_lib, lib, last.ret_lib, last.l, last.r)
         /\ SmallM2M_insert(small, last.l, last.r) = [v |-> small, ret |-> FALSE]
         /\ LibM2M_insert(lib, last.l, last.r) = [v |-> lib, ret |-> FALSE]

\* A pair that was present, among others, was inserted again.
C3_Witness ==
  /\ Shared /\ last.op = "insert"
  /\ VecContains(last.pre_lib, <<last.l, last.r>>)
  /\ VecContains(last.pre_vec, <<last.l, last.r>>)
  /\ Len(last.pre_lib) >= 2

InsertAdds(pre, post, ret, l, r) ==
  /\ ret = (VecContains(pre, <<l, r>>) = FALSE)
  /\ ret = TRUE =>
       /\ VecContains(post, <<l, r>>)
       /\ Len(post) = Len(pre) + 1
       /\ ToSet(post) = ToSet(pre) \cup {<<l, r>>}

\* C4: insert(l, r) returns true exactly when (l, r) was not present; then
\* contains(l, r) holds, len() grew by one and the set of pairs is the
\* previous set plus (l, r).
C4_InsertAbsent ==
  last.op = "insert" =>
    /\ InsertAdds(last.pre_vec, vec, last.ret_vec, last.l, last.r)
    /\ last.ret_vec = TRUE => M2M_contains(vec, last.l, last.r)
    /\ Shared =>
         /\ InsertAdds(last.pre_small, small, last.ret_small, last.l, last.r)
         /\ InsertAdds(last.pre_lib, lib, last.ret_lib, last.l, last.r)
         /\ last.ret_small = TRUE => SmallM2M_contains(small, last.l, last.r)
         /\ last.ret_lib = TRUE => LibM2M_contains(lib, last.l, last.r)

\* A new pair was inserted into containers that held pairs already.
C4_Witness ==
  /\ Shared /\ last.op = "insert"
  /\ last.ret_vec = TRUE /\ last.ret_small = TRUE /\ last.ret_lib = TRUE
  /\ Len(last.pre_vec) >= 2

RemoveReturns(pre, ret, l) ==
  IF WithLeft(pre, l) = {} THEN ret = None
  ELSE ret = Some(RightsOf(pre, l)) /\ ret.val # << >>

\* C5: remove(l) returns Some of the rights of all pairs with left l, in the
\* order they had before the call, and None when no pair has left l.
C5_RemoveReturn ==
  last.op = "remove" =>
    /\ RemoveReturns(last.pre_vec, last.ret_vec, last.l)
    /\ Shared =>
         /\ RemoveReturns(last.pre_small, last.ret_small, last.l)
         /\ RemoveReturns(last.pre_lib, last.ret_lib, last.l)

\* remove took out two pairs, and they did not stand in ascending order in
\* the insertion-order container.
C5_Witness ==
  /\ Shared /\ last.op = "remove"
  /\ last.ret_vec.some /\ Len(last.ret_vec.val) = 2
  /\ last.ret_lib.some /\ last.ret_lib.val # last.ret_vec.val

RemoveLeaves(pre, post, ret, l) ==
  /\ WithLeft(post, l) = {}
  /\ \A r \in Rights : ~VecContains(post, <<l, r>>)
  /\ post = At(pre, (1..Len(pre)) \ WithLeft(pre, l))
  /\ Len(post) = Len(pre) - (IF ret.some THEN Len(ret.val) ELSE 0)

\* C6: after remove(l) no pair with left l remains, remove(l) again returns
\* None, the pairs with another left are all there in their previous order,
\* and len() went down by the number of rights returned.
C6_RemoveEffect ==
  last.op = "remove" =>
    /\ RemoveLeaves(last.pre_vec, vec, last.ret_vec, last.l)
    /\ M2M_remove(vec, last.l).ret = None
    /\ Shared =>
         /\ RemoveLeaves(last.pre_small, small, last.ret_small, last.l)
         /\ RemoveLeaves(last.pre_lib, lib, last.ret_lib, last.l)
         /\ SmallM2M_remove(small, last.l).ret = None
         /\ LibM2M_remove(lib, last.l).ret = None

\* remove took a pair from between two pairs that stay.
C6_Witness ==
  /\ Shared /\ last.op = "remove" /\ last.ret_lib.some
  /\ Len(lib) >= 2
  /\ \E i \in 2..(Len(last.pre_lib) - 1) : last.pre_lib[i][1] = last.l
  /\ last.pre_lib[1][1] # last.l

FromYields(input, v) ==
  /\ ToSet(v) = ToSet(input)
  /\ Unique(v)
  /\ StrictlyAscending(v)
  /\ Len(v) = Cardinality(ToSet(input))
  /\ input = << >> => v = << >>

\* C7: from(collection) holds each distinct input pair exactly once, in
\* ascending order; len() is the number of distinct input pairs, from([]) is
\* empty, and inputs with the same set of pairs (the input reversed, the
\* input twice over) give the same container.
C7_From ==
  last.op = "from" =>
    /\ FromYields(last.input, vec)
    /\ M2M_from_iter(Reverse(last.input)) = vec
    /\ M2M_from_iter(last.input \o last.input) = vec
    /\ Shared =>
         /\ FromYields(last.input, small)
         /\ FromYields(last.input, lib)
         /\ SmallM2M_from_iter(Reverse(last.input)) = small
         /\ SmallM2M_from_iter(last.input \o last.input) = small

\* from was given a pair twice, with a smaller pair in between.
C7_Witness ==
  /\ Shared /\ last.op = "from" /\ Len(last.input) = 3
  /\ last.input[1] = last.input[3]
  /\ PairLess(last.input[2], last.input[1])
  /\ Len(vec) = 2 /\ Len(small) = 2

OptionOf(seq) == IF seq = << >> THEN None ELSE Some(seq)

\* C8: get_rights(l) is Some of the rights of all pairs with left l, in
\* container order, when there is such a pair, and None when there is none;
\* get_lefts(r) likewise with the lefts of the pairs with right r.
C8_GetRights ==
  /\ last.op = "get_rights" =>
       /\ last.ret_vec = OptionOf(RightsOf(vec, last.l))
       /\ Shared => last.ret_lib = OptionOf(RightsOf(lib, last.l))
  /\ last.op = "get_lefts" =>
       /\ last.ret_vec = OptionOf(LeftsOf(vec, last.r))
       /\ Shared => last.ret_lib = OptionOf(LeftsOf(lib, last.r))

\* get_lefts found two pairs, which the insertion-order container holds in
\* descending order.
C8_Witness ==
  /\ Shared /\ last.op = "get_lefts"
  /\ last.ret_vec.some /\ Len(last.ret_vec.val) = 2
  /\ last.ret_lib.some /\ last.ret_lib.val # last.ret_vec.val

\* The values of the set S of numbers, ascending.
Ascending(S) == [k \in 1..Cardinality(S) |-> Nth(S, k)]

\* C9: lefts() is None exactly on the empty container and otherwise the
\* strictly ascending sequence of the distinct left values, whatever writes
\* through get_lefts_mut, get_rights_mut, iter_mut and as_mut_slice did to
\* the pair sequence; rights() likewise.
C9_Lefts ==
  /\ last.op = "lefts" =>
       /\ last.ret_vec = None <=> vec = << >>
       /\ vec # << >> => last.ret_vec = Some(Ascending({vec[i][1] : i \in 1..Len(vec)}))
  /\ last.op = "rights" =>
       /\ last.ret_vec = None <=> vec = << >>
       /\ vec # << >> => last.ret_vec = Some(Ascending({vec[i][2] : i \in 1..Len(vec)}))

\* lefts() was asked of a container that writes left out of order and with
\* the same left in non-adjacent places.
C9_Witness ==
  /\ last.op = "lefts" /\ Len(vec) = 3
  /\ vec[1][1] = vec[3][1] /\ vec[2][1] < vec[1][1]
  /\ last.ret_vec.some /\ Len(last.ret_vec.val) = 2

\* C10: retain(f) leaves exactly the pairs f answers true on, as they were
\* and in their previous order.
C10_Retain ==
  last.op = "retain" =>
    /\ vec = At(last.pre_vec, {i \in 1..Len(last.pre_vec) : last.pre_vec[i] \in last.f})
    /\ ToSet(vec) = ToSet(last.pre_vec) \cap last.f

\* retain dropped the middle one of three pairs.
C10_Witness ==
  /\ last.op = "retain" /\ Len(last.pre_vec) = 3 /\ Len(vec) = 2
  /\ last.pre_vec[2] \notin last.f

\* C11: retain(p) and reject(not p) leave equal containers equal, and
\* reject(p) keeps exactly the pairs p answers false on, in their previous
\* order.
C11_RetainReject ==
  /\ last.op = "retain" => vec = M2M_reject(last.pre_vec, Pairs \ last.f)
  /\ last.op = "reject" =>
       /\ vec = M2M_retain(last.pre_vec, Pairs \ last.f)
       /\ vec = At(last.pre_vec, {i \in 1..Len(last.pre_vec) : last.pre_vec[i] \notin last.f})

\* reject dropped the middle one of three pairs.
C11_Witness ==
  /\ last.op = "reject" /\ Len(last.pre_vec) = 3 /\ Len(vec) = 2
  /\ last.pre_vec[2] \in last.f

\* C12: flip() returns a container that holds (r, l) exactly when the
\* original holds (l, r), strictly ascending in (right, left) order and so
\* without a pair twice; the original's pair sequence is as it was.
C12_Flip ==
  last.op = "flip" =>
    /\ ToSet(last.ret_vec) = {<<p[2], p[1]>> : p \in ToSet(last.pre_vec)}
    /\ StrictlyAscending(last.ret_vec)
    /\ Unique(last.ret_vec)
    /\ Len(last.ret_vec) = Len(last.pre_vec)
    /\ vec = last.pre_vec

\* flip was asked of a container whose swapped pairs are out of order.
C12_Witness ==
  /\ last.op = "flip" /\ Len(vec) = 3
  /\ \E i \in 1..(Len(vec) - 1) : PairLess(<<vec[i + 1][2], vec[i + 1][1]>>, <<vec[i][2], vec[i][1]>>)

\* C13: for a container m reached through from, insert, remove, retain,
\* reject and clear, m.flip().flip() holds the same set of pairs as m, and
\* the same pair sequence.
C13_FlipFlip ==
  last.op = "flip" =>
    /\ ToSet(M2M_flip(last.ret_vec)) = ToSet(vec)
    /\ M2M_flip(last.ret_vec) = vec

\* flip was asked of a container with a left and a right that each occur twice,
\* and its result is not the original pair sequence.
C13_Witness ==
  /\ last.op = "flip" /\ Len(vec) = 3
  /\ vec[1][1] = vec[2][1] /\ vec[2][2] = vec[3][2]
  /\ last.ret_vec # vec

\* C14: driven with the same from/new, insert, remove and clear calls, the
\* stdvec M2M and the SmallM2M return the same from every insert and remove
\* and agree after every step on len, is_empty, contains and the pair
\* sequence, whether or not the SmallVec has left its inline buffer.
C14_HeapSmall ==
  Shared =>
    /\ vec = small
    /\ M2M_len(vec) = SmallM2M_len(small)
    /\ M2M_is_empty(vec) = SmallM2M_is_empty(small)
    /\ \A l \in Lefts, r \in Rights : M2M_contains(vec, l, r) = SmallM2M_contains(small, l, r)
    /\ last.op \in {"insert", "remove", "contains"} => last.ret_vec = last.ret_small

\* remove took two pairs out of a SmallM2M that had left its inline buffer
\* and now holds fewer pairs than the buffer has room for.
C14_Witness ==
  /\ Shared /\ spilled /\ last.op = "remove"
  /\ last.ret_small.some /\ Len(last.ret_small.val) = 2
  /\ Len(small) < InlineCap /\ small # << >>

SameOption(a, b) == a.some = b.some /\ ToSet(a.val) = ToSet(b.val)

\* C15: driven with the same from/new, insert, remove and clear calls, the
\* insertion-order M2M of lib.rs and the sorted-order M2M of stdvec.rs return
\* the same bool from every insert and the same set of rights from every
\* remove (None in both or Some in both), and agree after every step on len,
\* is_empty, contains, contains_left, contains_right and on the set of values
\* of get_rights(l) and get_lefts(r); only the order of pairs may differ.
C15_LibHeap ==
  Shared =>
    /\ ToSet(lib) = ToSet(vec)
    /\ LibM2M_len(lib) = M2M_len(vec)
    /\ LibM2M_is_empty(lib) = M2M_is_empty(vec)
    /\ \A l \in Lefts, r \in Rights : LibM2M_contains(lib, l, r) = M2M_contains(vec, l, r)
    /\ \A l \in Lefts :
         /\ LibM2M_contains_left(lib, l) = M2M_contains_left(vec, l)
         /\ SameOption(LibM2M_get_rights(lib, l), M2M_get_rights(vec, l))
    /\ \A r \in Rights :
         /\ LibM2M_contains_right(lib, r) = M2M_contains_right(vec, r)
         /\ SameOption(LibM2M_get_lefts(lib, r), M2M_get_lefts(vec, r))
    /\ last.op \in {"insert", "contains", "contains_left", "contains_right"} =>
         last.ret_lib = last.ret_vec
    /\ last.op \in {"remove", "get_rights", "get_lefts"} =>
         SameOption(last.ret_lib, last.ret_vec)

\* The two containers hold the same three pairs in different orders, and
\* get_rights returned the same two rights in different orders.
C15_Witness ==
  /\ Shared /\ Len(lib) = 3 /\ lib # vec
  /\ last.op = "get_rights" /\ last.ret_lib.some /\ Len(last.ret_lib.val) = 2
  /\ last.ret_lib.val # last.ret_vec.val

\* The first occurrence of each element of s, in the order of s.
FirstOccurrences(s) == At(s, {i \in 1..Len(s) : \A j \in 1..(i - 1) : s[j] # s[i]})

InsertAppends(pre, post, ret, l, r) ==
  IF ret = TRUE THEN post = Append(pre, <<l, r>>) ELSE post = pre

\* C16 as claimed: the lib.rs M2M holds the pairs in the order they were
\* supplied, first occurrences only: after from(collection) the distinct
\* pairs stand in the collection's order, and a successful insert appends.
C16_SuppliedOrder ==
  Shared =>
    /\ last.op = "from" => lib = FirstOccurrences(last.input)
    /\ last.op = "insert" =>
         InsertAppends(last.pre_lib, lib, last.ret_lib, last.l, last.r)

\* C16, amended: in the lib.rs M2M a successful insert appends its pair after
\* the pairs already present and changes nothing else, and an insert turned
\* down changes nothing, so new() followed by inserts holds the pairs in
\* insertion order; from(collection) holds the distinct pairs of the
\* collection in ascending (left, right) order, not in the order supplied.
C16_AppendOrder ==
  Shared =>
    /\ last.op = "new" => lib = << >>
    /\ last.op = "from" =>
         /\ ToSet(lib) = ToSet(last.input)
         /\ StrictlyAscending(lib)
    /\ last.op = "insert" =>
         InsertAppends(last.pre_lib, lib, last.ret_lib, last.l, last.r)

\* A successful insert put a pair smaller than all pairs present at the end.
C16_Witness ==
  /\ Shared /\ last.op = "insert" /\ last.ret_lib = TRUE
  /\ Len(lib) = 3 /\ lib[3] = <<last.l, last.r>>
  /\ PairLess(lib[3], lib[1]) /\ PairLess(lib[3], lib[2])

\* C17: contains_left(l) holds exactly when contains(l, r) holds for some r,
\* contains_right(r) exactly when contains(l, r) holds for some l, and
\* contains(l, r) exactly when some index holds the pair (l, r).
C17_Contains ==
  /\ \A l \in Lefts : M2M_contains_left(vec, l) <=> \E r \in Rights : M2M_contains(vec, l, r)
  /\ \A r \in Rights : M2M_contains_right(vec, r) <=> \E l \in Lefts : M2M_contains(vec, l, r)
  /\ \A l \in Lefts, r \in Rights :
       /\ M2M_contains(vec, l, r) <=> <<l, r>> \in ToSet(vec)
       /\ SmallM2M_contains(small, l, r) <=> <<l, r>> \in ToSet(small)
       /\ LibM2M_contains(lib, l, r) <=> <<l, r>> \in ToSet(lib)
  /\ \A l \in Lefts : LibM2M_contains_left(lib, l) <=> \E r \in Rights : LibM2M_contains(lib, l, r)
  /\ \A r \in Rights : LibM2M_contains_right(lib, r) <=> \E l \in Lefts : LibM2M_contains(lib, l, r)
  /\ last.op = "contains" => (last.ret_vec <=> <<last.l, last.r>> \in ToSet(vec))
  /\ last.op = "contains_left" =>
       (last.ret_vec <=> \E r \in Rights : M2M_contains(vec, last.l, r))
  /\ last.op = "contains_right" =>
       (last.ret_vec <=> \E l \in Lefts : M2M_contains(vec, l, last.r))

\* contains_left answered true for a left that is paired with one right and
\* not with another, which is paired with another left.
C17_Witness ==
  /\ last.op = "contains_left" /\ last.ret_vec = TRUE
  /\ \E r \in Rights : ~M2M_contains(vec, last.l, r) /\ M2M_contains_right(vec, r)

\* C18: for a sorted-order M2M m reached without writes through mutable
\* handles and every right r, m.flip().get_rights(r) equals m.get_lefts(r):
\* None in both when no pair has right r, else the same ascending lefts.
C18_FlipLookup ==
  last.op = "flip" =>
    \A r \in Rights :
      /\ M2M_get_rights(last.ret_vec, r) = M2M_get_lefts(vec, r)
      /\ M2M_get_rights(last.ret_vec, r) = OptionOf(Ascending({p[1] : p \in {q \in ToSet(vec) : q[2] = r}}))

\* flip was asked of a container in which one right has two lefts, with a
\* pair of another right between them.
C18_Witness ==
  /\ last.op = "flip" /\ Len(vec) = 3
  /\ vec[1][2] = vec[3][2] /\ vec[2][2] # vec[1][2]
  /\ M2M_get_lefts(vec, vec[1][2]) = Some(<<vec[1][1], vec[3][1]>>)
  /\ M2M_get_rights(last.ret_vec, vec[1][2]) = Some(<<vec[1][1], vec[3][1]>>)

\* The scan ran its body once per pair held at the start and ended with its
\* index at the length of what is left, having produced post.
ScanEnds(done, pre, post) ==
  /\ done.iters = Len(pre)
  /\ done.i = Len(done.v)
  /\ done.i + Len(done.rights) = Len(pre)
  /\ done.v = post

\* C19: the scan loop of remove ends after exactly as many iterations as the
\* container held pairs when the call started, for every content and every
\* left, with its index never beyond the current length.
C19_RemoveTerminates ==
  last.op = "remove" =>
    /\ ScanEnds(M2M_remove_loop(last.pre_vec, last.l, 0, << >>, 0), last.pre_vec, vec)
    /\ Shared =>
         /\ ScanEnds(SmallM2M_remove_loop(last.pre_small, last.l, 0, << >>, 0), last.pre_small, small)
         /\ ScanEnds(LibM2M_remove_loop(last.pre_lib, last.l, 0, << >>, 0), last.pre_lib, lib)

\* remove scanned three pairs, deleting the second and keeping the others.
C19_Witness ==
  /\ Shared /\ last.op = "remove" /\ Len(last.pre_lib) = 3
  /\ last.pre_lib[2][1] = last.l
  /\ last.pre_lib[1][1] # last.l /\ last.pre_lib[3][1] # last.l
  /\ Len(last.pre_vec) = 3 /\ Len(vec) < 3

====
